---- MODULE Spec2Model ----
(***************************************************************************)
(* Fire lookout game (src/minimal_version.py): the frame loop, the fire    *)
(* spawner, the per-layer expiry sweeps, the azimuth-to-screen projection  *)
(* and the report hit test.                                                *)
(*                                                                         *)
(* Time.  pygame.time.get_ticks() returns integer milliseconds, a fire's   *)
(* lifetime is base_lifetime * {0.5, 1, 1.5, 2} and the next spawn time is *)
(* current_time + randint(4000, 8000) / {0.5, 1, 1.5, 2}.  Every one of    *)
(* these is a multiple of 1/6 ms, so all clock values and durations of the *)
(* model are integers counted in sixths of a millisecond: Ms(t) is t ms.   *)
(* The comparisons of the code (>, >=) on these values are exact in IEEE   *)
(* doubles, so the integer comparisons below decide them the same way.     *)
(*                                                                         *)
(* Floats.  The pixel arithmetic of the code is int() of a double          *)
(* expression.  int() truncates toward zero (IntTrunc).  Where the double  *)
(* result of an expression differs from the exact quotient enough to       *)
(* change the truncated integer, the operator lists those arguments        *)
(* (found by evaluating the source expression over its whole domain).      *)
(***************************************************************************)
EXTENDS Integers, Sequences, FiniteSets, TLC

VARIABLES
    weather,              \* line 28, fixed at start-up
    background_mid_mask,  \* line 51, the mask image of the mid layer
    background_far_mask,  \* line 52, the mask image of the far layer
    fires,                \* line 187, the live list, in insertion order
    reports,              \* line 188
    player_azimuth,       \* line 189
    osborne_open,         \* line 190
    crosshair_pos,        \* line 191, <<x, y>>
    next_fire_time,       \* line 192, in sixths of a millisecond
    ticks,                \* pygame.time.get_ticks(), in sixths of a millisecond
    current_time,         \* line 331
    running,              \* line 326
    pc,                   \* the position of the main loop
    attempts,             \* line 236, generate_fire's loop counter (0 outside the call)
    event,                \* line 333, the event the for loop handled last
    drawn,                \* the blits of this iteration of the loop, in order
    info,                 \* line 301, <<cross_azimuth, cross_elevation>> of the status line
    spawned,              \* history: the number of Fire objects constructed so far
    last_attempt,         \* history: current_time of the latest call of generate_fire, -1 before the first
    ret                   \* the value returned by the function applied last

vars == <<weather, background_mid_mask, background_far_mask, fires, reports,
          player_azimuth, osborne_open, crosshair_pos, next_fire_time, ticks,
          current_time, running, pc, attempts, event, drawn, info, spawned,
          last_attempt, ret>>

-----------------------------------------------------------------------------
(* Program constants *)

SCREEN_WIDTH == 800
SCREEN_HEIGHT == 600
FOV == 150
max_attempts == 20

weather_conditions == {"Clear", "Rainy", "Windy", "Hot"}

\* Python's None (get_screen_pos, line 154).
None == <<>>

\* t milliseconds, in the model's unit of 1/6 ms.
Ms(t) == 6 * t

\* Python's int() of the exact quotient n / d (d > 0): truncation toward zero.
IntTrunc(n, d) == IF n >= 0 THEN n \div d ELSE -((-n) \div d)

\* Python's abs().
Abs(n) == IF n < 0 THEN -n ELSE n

-----------------------------------------------------------------------------
(* Bounds and input sets of the model *)

\* The clock is followed up to MaxTime milliseconds.
MaxTime == 20000
\* At most MaxFires Fire objects are constructed in a run.
MaxFires == 2
\* The bearings the player turns the view to.
ViewBearings == {359, 0}

\* Frame durations (clock.tick, line 330), in ms.
DtSet == {5000, 10000}
\* Draws of random.randint(3000, 6000), line 192.
InitialWaits == {3000}
\* Draws of random.randint(4000, 8000), line 362.
WaitDraws == {4000, 8000}
\* Draws of random.randint(0, 359), line 239.
AzimuthDraws == {0, 100}
\* Draws of random.randint(10000, 50000), line 247.
LifetimeDraws == {10000}
\* Draws of random.randint(0, 80), line 73.
OffsetDraws == {0, 80}
\* Pointer positions read by pygame.mouse.get_pos(), line 342.
MousePositions == {<<400, 345>>}

-----------------------------------------------------------------------------
(* Mask images.  load_mask (lines 39-45) returns the image of the asset    *)
(* file, or a white 800 x 600 surface when the file cannot be loaded.      *)
(* "narrow" (36 x 6), "wide" (1000 x 12) and "panorama" (1600 x 12) are    *)
(* asset images.                                                           *)

Masks == {"fallback", "narrow", "wide", "panorama"}

get_width(mask) ==
    CASE mask = "fallback" -> 800
      [] mask = "narrow" -> 36
      [] mask = "wide" -> 1000
      [] mask = "panorama" -> 1600

get_height(mask) ==
    CASE mask = "fallback" -> 600
      [] mask = "narrow" -> 6
      [] mask = "wide" -> 12
      [] mask = "panorama" -> 12

\* Whether column x of the image holds part of the hill silhouette.
HillColumn(mask, x) ==
    CASE mask = "fallback" -> FALSE
      [] mask = "narrow" -> x \in {0, 1, 18, 20, 21}
      [] mask = "wide" -> x \in (0..99) \cup (400..419) \cup (500..599)
      [] mask = "panorama" -> x \in (0..199) \cup (900..999)

\* The row of the hilltop in a hill column.
HillTop(mask, x) == IF mask = "narrow" THEN 3 ELSE 7 + (x % 2)

\* The pixel at (x, y): white sky, one row of light grey (brightness exactly
\* 200) just above the hilltop, dark hill from the hilltop down.
get_at(mask, x, y) ==
    IF ~HillColumn(mask, x) \/ y < HillTop(mask, x) - 1 THEN <<255, 255, 255>>
    ELSE IF y = HillTop(mask, x) - 1 THEN <<200, 200, 200>>
    ELSE <<90, 60, 30>>

\* brightness < 200 with brightness = (r + g + b) / 3 (lines 132-133, 225-226).
IsTerrainPixel(pixel) == pixel[1] + pixel[2] + pixel[3] < 3 * 200

-----------------------------------------------------------------------------
(* Pixel arithmetic *)

\* int((azimuth / 360) * mask_width), lines 213, 217 (and 122, 201, 216 with
\* the player's azimuth).  The double product falls just under the exact
\* integer for azimuth 207 on an 800 and on a 1600 pixel image.
AzimuthToColumn(azimuth, mask_width) ==
    (azimuth * mask_width) \div 360
      - (IF mask_width \in {800, 1600} /\ azimuth = 207 THEN 1 ELSE 0)

\* int((screen_x / SCREEN_WIDTH) * mask_width), line 118.  On an 800 pixel
\* image the double product falls just under the exact integer for 37 columns.
ScreenXToColumn(screen_x, mask_width) ==
    (screen_x * mask_width) \div SCREEN_WIDTH
      - (IF mask_width = 800 /\ screen_x \in
              {29, 57, 58, 113, 114, 115, 116, 201, 203, 205, 207, 226, 228,
               230, 232, 251, 253, 255, 402, 406, 410, 414, 427, 431, 435,
               439, 452, 456, 460, 464, 477, 481, 485, 489, 502, 506, 510}
         THEN 1 ELSE 0)

\* int((y / mask_height) * SCREEN_HEIGHT), line 135.
RowToScreenY(y, mask_height) ==
    (y * SCREEN_HEIGHT) \div mask_height
      - (IF mask_height = 600 /\ y \in
              {55, 79, 97, 110, 123, 158, 171, 194, 207, 220, 233, 246, 313,
               316, 339, 342, 365, 388, 391, 414, 417, 440, 463, 466, 489, 492}
         THEN 1 ELSE 0)

\* The for loops of lines 128-139 and 221-229, which scan column x from the
\* top: the first row whose pixel is terrain, or mask_height when there is
\* none.  (x is always a column of the image, so get_at never raises
\* IndexError.)
ScanColumn(mask, x) ==
    LET rows == {y \in 0..(get_height(mask) - 1) : IsTerrainPixel(get_at(mask, x, y))}
    IN  IF rows = {} THEN get_height(mask)
        ELSE CHOOSE y \in rows : \A z \in rows : y <= z

\* The scan of every column of every image, evaluated once: the images never
\* change after they are loaded.
ColumnScans ==
    [mask \in Masks |-> [x \in 0..(get_width(mask) - 1) |-> ScanColumn(mask, x)]]

FirstTerrainRow(mask, x) == ColumnScans[mask][x]

\* Lines 205-231.
has_terrain_at_azimuth(azimuth, mask, p_azimuth) ==
    LET mask_width == get_width(mask)
        x == IF mask_width <= SCREEN_WIDTH
             THEN AzimuthToColumn(azimuth, mask_width) % mask_width
             ELSE LET parallax_offset == AzimuthToColumn(p_azimuth, mask_width) % mask_width
                      base_x == AzimuthToColumn(azimuth, mask_width)
                  IN  (base_x + parallax_offset) % mask_width
    IN  FirstTerrainRow(mask, x) < get_height(mask)

-----------------------------------------------------------------------------
(* class Fire *)

\* The lifetime without the weather's multiplier.
WeatherLifetimeUnscaled(w, base_lifetime) == 6 * base_lifetime

\* Lines 95-103: the lifetime under the weather, in sixths of a millisecond
\* (base_lifetime is in milliseconds).
WeatherLifetime(w, base_lifetime) ==
    CASE w = "Rainy" -> 3 * base_lifetime
      [] w = "Windy" -> 9 * base_lifetime
      [] w = "Hot" -> 12 * base_lifetime
      [] OTHER -> 6 * base_lifetime

\* Lines 65-105.  id stands for the identity of the Python object; offset is
\* the draw of random.randint(0, 80) of line 73.
Fire(id, azimuth, distance, base_lifetime, offset) ==
    [id |-> id,
     azimuth |-> azimuth,
     distance |-> distance,
     layer |-> IF distance > 150 THEN "far" ELSE "mid",
     reported |-> FALSE,
     terrain_offset |-> offset,
     lifetime |-> WeatherLifetime(weather, base_lifetime),
     spawn_time |-> ticks]

\* The test of line 108 with >= for >.
IsExpiredInclusive(fire) == ticks - fire.spawn_time >= fire.lifetime

\* Lines 107-108.
is_expired(fire) == ticks - fire.spawn_time > fire.lifetime

\* The column of a wide mask taken to be the screen column itself, without
\* the parallax offset.
MaskColumnUnscrolled(screen_x, mask_width, p_azimuth) ==
    IF mask_width <= SCREEN_WIDTH
    THEN ScreenXToColumn(screen_x, mask_width) % mask_width
    ELSE screen_x % mask_width

\* Lines 116-125: mask_x, the column of the mask sampled for screen_x.
MaskColumn(screen_x, mask_width, p_azimuth) ==
    IF mask_width <= SCREEN_WIDTH
    THEN ScreenXToColumn(screen_x, mask_width) % mask_width
    ELSE LET parallax_offset == AzimuthToColumn(p_azimuth, mask_width) % mask_width
         IN  (parallax_offset + screen_x) % mask_width

\* Lines 110-145.
get_terrain_height_at_screen_x(fire, screen_x, mask, p_azimuth) ==
    LET mask_width == get_width(mask)
        mask_height == get_height(mask)
        mask_x == MaskColumn(screen_x, mask_width, p_azimuth)
        y == FirstTerrainRow(mask, mask_x)
    IN  IF y < mask_height
        THEN RowToScreenY(y, mask_height) + fire.terrain_offset
        ELSE IF fire.layer = "far"
        THEN 420 + fire.terrain_offset    \* int(SCREEN_HEIGHT * 0.7)
        ELSE 510 + fire.terrain_offset    \* int(SCREEN_HEIGHT * 0.85)

\* The difference reduced from the other side, into (-180, 180].
RelativeAngleUpperClosed(azimuth, p_azimuth) ==
    180 - ((p_azimuth - azimuth + 180) % 360)

\* Line 150.
RelativeAngle(azimuth, p_azimuth) == ((azimuth - p_azimuth + 180) % 360) - 180

\* The test of line 153 with >= for >.
OutOfViewInclusive(relative_angle) == 2 * Abs(relative_angle) >= FOV

\* Line 153: abs(relative_angle) > FOV / 2.
OutOfView(relative_angle) == 2 * Abs(relative_angle) > FOV

\* Line 157: int((relative_angle + FOV / 2) / FOV * SCREEN_WIDTH).  The double
\* result for relative_angle = 12 is 463.99999999999994, not 464.
AngleToScreenX(relative_angle) ==
    IntTrunc((2 * relative_angle + FOV) * SCREEN_WIDTH, 2 * FOV)
      - (IF relative_angle = 12 THEN 1 ELSE 0)

\* Lines 147-163.
get_screen_pos(fire, p_azimuth) ==
    LET relative_angle == RelativeAngle(fire.azimuth, p_azimuth)
        x == AngleToScreenX(relative_angle)
        mask == IF fire.layer = "far" THEN background_far_mask ELSE background_mid_mask
    IN  IF OutOfView(relative_angle) THEN None
        ELSE <<x, get_terrain_height_at_screen_x(fire, x, mask, p_azimuth)>>

-----------------------------------------------------------------------------
(* The sighting instrument: draw_osborne_ui and check_report *)

\* Lines 298 and 306: int((x / SCREEN_WIDTH) * FOV + (player_azimuth - FOV // 2)) % 360.
\* The exact value is (3 * x + 16 * (player_azimuth - 75)) / 16.  The double
\* product (x / 800) * 150 is off by one unit in the last place for x = 112,
\* 224, 272 (above) and 656 (below), which moves the truncated sum by one for
\* the player azimuths listed.
CrossAzimuth(x, p_azimuth) ==
    LET exact == IntTrunc(3 * x + 16 * (p_azimuth - (FOV \div 2)), 16)
        off == CASE x = 112 /\ p_azimuth \in 22..53 -> 1
                 [] x = 224 /\ p_azimuth \in 0..32 -> 1
                 [] x = 272 /\ p_azimuth \in 0..23 -> 1
                 [] x = 656 /\ p_azimuth \in 0..80 -> -1
                 [] OTHER -> 0
    IN  (exact + off) % 360

\* Lines 299 and 321: int((300 - y) / (600 / 90)).
CrossElevation(y) == IntTrunc((300 - y) * 90, 600)

\* Line 315.
AngleDiff(azimuth, cross_azimuth) ==
    Abs(((azimuth - cross_azimuth + 180) % 360) - 180)

\* Line 316, squared: math.sqrt(d) < 50 exactly when d < 2500.
DistanceSquared(pos, cross) ==
    (pos[1] - cross[1]) * (pos[1] - cross[1]) + (pos[2] - cross[2]) * (pos[2] - cross[2])

\* Hit without the test of the reported flag.
HitIgnoringReported(fire, cross_azimuth) ==
    LET pos == get_screen_pos(fire, player_azimuth)
    IN  /\ pos # None
        /\ AngleDiff(fire.azimuth, cross_azimuth) < 15
        /\ DistanceSquared(pos, crosshair_pos) < 50 * 50

\* Lines 310-318: the fire is on screen and passes the test of line 318.
Hit(fire, cross_azimuth) ==
    LET pos == get_screen_pos(fire, player_azimuth)
    IN  /\ pos # None
        /\ ~fire.reported
        /\ AngleDiff(fire.azimuth, cross_azimuth) < 15
        /\ DistanceSquared(pos, crosshair_pos) < 50 * 50

\* The scan taking the last fire that passes instead of the first.
LastHit(i, cross_azimuth) ==
    LET hits == {j \in i..Len(fires) : Hit(fires[j], cross_azimuth)}
    IN  IF hits = {} THEN 0 ELSE CHOOSE j \in hits : \A k \in hits : k <= j

\* The for loop of lines 309-323 from index i on: the index of the fire it
\* breaks at, 0 when it runs to the end of the list.
RECURSIVE FirstHit(_, _)
FirstHit(i, cross_azimuth) ==
    IF i > Len(fires) THEN 0
    ELSE IF Hit(fires[i], cross_azimuth) THEN i
    ELSE FirstHit(i + 1, cross_azimuth)

\* Line 320: the tuple appended to reports.
ReportRecord(cross_azimuth, cross_y) == <<cross_azimuth, cross_y>>

\* check_report restarting the lifetime of the fire it reports.
CheckReportRestartingFire ==
    LET cross_azimuth == CrossAzimuth(crosshair_pos[1], player_azimuth)
        cross_y == crosshair_pos[2]
        i == FirstHit(1, cross_azimuth)
    IN  IF i = 0
        THEN UNCHANGED <<fires, reports>>
        ELSE /\ fires' = [fires EXCEPT ![i].reported = TRUE, ![i].spawn_time = ticks]
             /\ reports' = Append(reports, ReportRecord(cross_azimuth, cross_y))

\* Lines 305-323.
check_report ==
    LET cross_azimuth == CrossAzimuth(crosshair_pos[1], player_azimuth)
        cross_y == crosshair_pos[2]
        i == FirstHit(1, cross_azimuth)
    IN  IF i = 0
        THEN UNCHANGED <<fires, reports>>
        ELSE /\ fires' = [fires EXCEPT ![i].reported = TRUE]
             /\ reports' = Append(reports, ReportRecord(cross_azimuth, cross_y))

-----------------------------------------------------------------------------
(* The main loop, lines 326-376 *)

NoEvent == [type |-> "none", key |-> "none"]

\* The events pygame.event.get() can deliver (line 333).
Events ==
    {[type |-> "QUIT", key |-> "none"],
     [type |-> "KEYDOWN", key |-> "o"],
     [type |-> "KEYDOWN", key |-> "SPACE"],
     [type |-> "MOUSEMOTION", key |-> "none"],
     [type |-> "KEYUP", key |-> "other"]}

\* The start-ups followed: the weather drawn at line 27 and the two masks.
StartConfigs ==
    {<<w, "narrow", "wide">> : w \in weather_conditions}
      \cup {<<"Clear", "fallback", "fallback">>}

Init ==
    /\ \E c \in StartConfigs :
         /\ weather = c[1]
         /\ background_mid_mask = c[2]
         /\ background_far_mask = c[3]
    /\ fires = <<>>
    /\ reports = <<>>
    /\ player_azimuth = 0
    /\ osborne_open = FALSE
    /\ crosshair_pos = <<SCREEN_WIDTH \div 2, SCREEN_HEIGHT \div 2>>
    /\ ticks = 0
    /\ \E w \in InitialWaits : next_fire_time = ticks + Ms(w)
    /\ current_time = 0
    /\ running = TRUE
    /\ pc = "tick"
    /\ attempts = 0
    /\ event = NoEvent
    /\ drawn = <<>>
    /\ info = None
    /\ spawned = 0
    /\ last_attempt = -1
    /\ ret = None

\* Lines 329-331: the loop condition held; the frame wait, then the clock read.
Tick ==
    /\ pc = "tick"
    /\ \E dt \in DtSet :
         /\ ticks + Ms(dt) <= Ms(MaxTime)
         /\ ticks' = ticks + Ms(dt)
    /\ current_time' = ticks'
    /\ drawn' = <<>>
    /\ info' = None
    /\ pc' = "events"
    /\ UNCHANGED <<weather, background_mid_mask, background_far_mask, fires,
                   reports, player_azimuth, osborne_open, crosshair_pos,
                   next_fire_time, running, attempts, event, spawned, last_attempt, ret>>

\* The test of line 339 without the instrument-open flag.
ReportTriggeredAlways(e) == e.type = "KEYDOWN" /\ e.key = "SPACE"

\* Line 339: a space key press calls check_report.
ReportTriggered(e) == e.type = "KEYDOWN" /\ e.key = "SPACE" /\ osborne_open

\* Line 341: a pointer motion is sampled.
PointerSampled(e) == e.type = "MOUSEMOTION" /\ osborne_open

\* Lines 333-342: one iteration of the for loop, on event e.
HandleEvent(e) ==
    /\ pc = "events"
    /\ event' = e
    /\ IF e.type = "QUIT"
       THEN /\ running' = FALSE
            /\ UNCHANGED <<osborne_open, fires, reports, crosshair_pos>>
       ELSE IF e.type = "KEYDOWN" /\ e.key = "o"
       THEN /\ osborne_open' = ~osborne_open
            /\ UNCHANGED <<running, fires, reports, crosshair_pos>>
       ELSE IF ReportTriggered(e)
       THEN /\ check_report
            /\ UNCHANGED <<running, osborne_open, crosshair_pos>>
       ELSE IF PointerSampled(e)
       THEN /\ \E p \in MousePositions : crosshair_pos' = p
            /\ UNCHANGED <<running, osborne_open, fires, reports>>
       ELSE UNCHANGED <<running, osborne_open, fires, reports, crosshair_pos>>
    /\ UNCHANGED <<weather, background_mid_mask, background_far_mask,
                   player_azimuth, next_fire_time, ticks, current_time, pc,
                   attempts, drawn, info, spawned, last_attempt, ret>>

\* Line 333: the event queue is exhausted.
EndEvents ==
    /\ pc = "events"
    /\ event' = NoEvent
    /\ pc' = "keys"
    /\ UNCHANGED <<weather, background_mid_mask, background_far_mask, fires,
                   reports, player_azimuth, osborne_open, crosshair_pos,
                   next_fire_time, ticks, current_time, running, attempts,
                   drawn, info, spawned, last_attempt, ret>>

\* The rotation with elif for the second if: the left key wins.
RotatedLeftWins(azimuth, left, right) ==
    IF left THEN (azimuth - 1) % 360
    ELSE IF right THEN (azimuth + 1) % 360
    ELSE azimuth

\* Lines 344-348, with the state of the two arrow keys.
Rotated(azimuth, left, right) ==
    LET a == IF left THEN (azimuth - 1) % 360 ELSE azimuth
    IN  IF right THEN (a + 1) % 360 ELSE a

Keys ==
    /\ pc = "keys"
    /\ \E left \in BOOLEAN, right \in BOOLEAN :
         /\ Rotated(player_azimuth, left, right) \in ViewBearings
         /\ player_azimuth' = Rotated(player_azimuth, left, right)
    /\ pc' = "spawn"
    /\ UNCHANGED <<weather, background_mid_mask, background_far_mask, fires,
                   reports, osborne_open, crosshair_pos, next_fire_time, ticks,
                   current_time, running, attempts, event, drawn, info,
                   spawned, last_attempt, ret>>

\* Line 351: no spawn is due.
SpawnNotDue ==
    /\ pc = "spawn"
    /\ ~(current_time >= next_fire_time)
    /\ pc' = "draw_far"
    /\ UNCHANGED <<weather, background_mid_mask, background_far_mask, fires,
                   reports, player_azimuth, osborne_open, crosshair_pos,
                   next_fire_time, ticks, current_time, running, attempts,
                   event, drawn, info, spawned, last_attempt, ret>>

\* Lines 351-353 and 235-236: a spawn is due, generate_fire is entered.
SpawnDue ==
    /\ pc = "spawn"
    /\ current_time >= next_fire_time
    /\ spawned < MaxFires
    /\ attempts' = 0
    /\ last_attempt' = current_time
    /\ pc' = "generate_fire"
    /\ UNCHANGED <<weather, background_mid_mask, background_far_mask, fires,
                   reports, player_azimuth, osborne_open, crosshair_pos,
                   next_fire_time, ticks, current_time, running, event, drawn,
                   info, spawned, ret>>

\* The loop test of line 238 with <= for <.
LoopContinuesOneMore(n) == n <= max_attempts

\* Line 238.
LoopContinues(n) == n < max_attempts

\* Line 243.
MaskOfDistance(distance) ==
    IF distance = 100 THEN background_mid_mask ELSE background_far_mask

\* Line 246: the terrain test of a draw (player_azimuth is left at its default 0).
DrawHasTerrain(azimuth, distance) ==
    has_terrain_at_azimuth(azimuth, MaskOfDistance(distance), 0)

\* Lines 238-253: an iteration whose draw has terrain; the fire is appended
\* and generate_fire returns.
GenerateFireFound ==
    /\ pc = "generate_fire"
    /\ LoopContinues(attempts)
    /\ \E azimuth \in AzimuthDraws, distance \in {100, 200} :
         /\ DrawHasTerrain(azimuth, distance)
         /\ \E base_lifetime \in LifetimeDraws, offset \in OffsetDraws :
              fires' = Append(fires, Fire(spawned + 1, azimuth, distance,
                                          base_lifetime, offset))
    /\ spawned' = spawned + 1
    /\ attempts' = 0
    /\ pc' = "schedule"
    /\ UNCHANGED <<weather, background_mid_mask, background_far_mask, reports,
                   player_azimuth, osborne_open, crosshair_pos, next_fire_time,
                   ticks, current_time, running, event, drawn, info,
                   last_attempt, ret>>

\* Lines 238-246 and 255: an iteration whose draw has no terrain.
GenerateFireMiss ==
    /\ pc = "generate_fire"
    /\ LoopContinues(attempts)
    /\ \E azimuth \in AzimuthDraws, distance \in {100, 200} :
         ~DrawHasTerrain(azimuth, distance)
    /\ attempts' = attempts + 1
    /\ UNCHANGED <<weather, background_mid_mask, background_far_mask, fires,
                   reports, player_azimuth, osborne_open, crosshair_pos,
                   next_fire_time, ticks, current_time, running, pc, event,
                   drawn, info, spawned, last_attempt, ret>>

\* Lines 238 and 257: the attempts are used up; the message is printed.
GenerateFireGiveUp ==
    /\ pc = "generate_fire"
    /\ ~LoopContinues(attempts)
    /\ attempts' = 0
    /\ pc' = "schedule"
    /\ UNCHANGED <<weather, background_mid_mask, background_far_mask, fires,
                   reports, player_azimuth, osborne_open, crosshair_pos,
                   next_fire_time, ticks, current_time, running, event,
                   drawn, info, spawned, last_attempt, ret>>

\* The wait multiplied by waiting_time_scale instead of divided by it.
ScaledWaitMultiplied(w, wait) ==
    CASE w = "Hot" -> 12 * wait
      [] w = "Windy" -> 9 * wait
      [] w = "Rainy" -> 3 * wait
      [] OTHER -> 6 * wait

\* Lines 355-362: wait / waiting_time_scale for a wait of `wait` ms, in
\* sixths of a millisecond.
ScaledWait(w, wait) ==
    CASE w = "Hot" -> 3 * wait
      [] w = "Windy" -> 4 * wait
      [] w = "Rainy" -> 12 * wait
      [] OTHER -> 6 * wait

\* Lines 355-363.
ScheduleNext ==
    /\ pc = "schedule"
    /\ \E wait \in WaitDraws :
         next_fire_time' = current_time + ScaledWait(weather, wait)
    /\ pc' = "draw_far"
    /\ UNCHANGED <<weather, background_mid_mask, background_far_mask, fires,
                   reports, player_azimuth, osborne_open, crosshair_pos, ticks,
                   current_time, running, attempts, event, drawn, info,
                   spawned, last_attempt, ret>>

Blit(op, id) == [op |-> op, id |-> id]

\* Lines 195-203: the x positions at which draw_parallax_layer blits an image
\* bg_width wide, in the order of the blits (a narrow image is scaled to the
\* screen and blitted once at 0).  With scroll_factor 1 the double product
\* (player_azimuth / 360) * bg_width * 1 is that of AzimuthToColumn.
draw_parallax_layer(bg_width, p_azimuth) ==
    IF bg_width <= SCREEN_WIDTH THEN <<0>>
    ELSE LET offset == AzimuthToColumn(p_azimuth, bg_width) % bg_width
         IN  <<-offset, -offset + bg_width>>

\* The scan of a layer drawing the fires of both layers.
RECURSIVE LayerBlitsAnyLayer(_, _)
LayerBlitsAnyLayer(layer, i) ==
    IF i > Len(fires) THEN <<>>
    ELSE LET fire == fires[i]
         IN  IF ~is_expired(fire) /\ get_screen_pos(fire, player_azimuth) # None
             THEN <<Blit("fire", fire.id)>> \o LayerBlitsAnyLayer(layer, i + 1)
             ELSE LayerBlitsAnyLayer(layer, i + 1)

\* Lines 264-269 and 282-287 over the list from index i on: the fires of the
\* layer that fire.draw blits (those not expired whose position is not None).
RECURSIVE LayerBlits(_, _)
LayerBlits(layer, i) ==
    IF i > Len(fires) THEN <<>>
    ELSE LET fire == fires[i]
         IN  IF fire.layer = layer /\ ~is_expired(fire)
                  /\ get_screen_pos(fire, player_azimuth) # None
             THEN <<Blit("fire", fire.id)>> \o LayerBlits(layer, i + 1)
             ELSE LayerBlits(layer, i + 1)

\* fires_to_remove collecting the expired fires of both layers.
FiresToRemoveAnyLayer(layer) ==
    {fires[i].id : i \in {j \in 1..Len(fires) : is_expired(fires[j])}}

\* Lines 263-267 and 281-285: fires_to_remove, as the set of the objects.
FiresToRemove(layer) ==
    {fires[i].id : i \in {j \in 1..Len(fires) :
                            fires[j].layer = layer /\ is_expired(fires[j])}}

\* Lines 272-273 and 290-291: fires.remove(fire) for each fire of ids.
RemoveFires(ids) == SelectSeq(fires, LAMBDA f : f.id \notin ids)

\* Lines 259-275.
DrawFar ==
    /\ pc = "draw_far"
    /\ drawn' = drawn \o <<Blit("background_far", 0)>> \o LayerBlits("far", 1)
                      \o <<Blit("haze", 0)>>
    /\ fires' = RemoveFires(FiresToRemove("far"))
    /\ pc' = "draw_mid"
    /\ UNCHANGED <<weather, background_mid_mask, background_far_mask, reports,
                   player_azimuth, osborne_open, crosshair_pos, next_fire_time,
                   ticks, current_time, running, attempts, event, info,
                   spawned, last_attempt, ret>>

\* Lines 277-291, then the test of line 370.
DrawMid ==
    /\ pc = "draw_mid"
    /\ drawn' = drawn \o <<Blit("background_mid", 0)>> \o LayerBlits("mid", 1)
    /\ fires' = RemoveFires(FiresToRemove("mid"))
    /\ pc' = IF osborne_open THEN "ui" ELSE "flip"
    /\ UNCHANGED <<weather, background_mid_mask, background_far_mask, reports,
                   player_azimuth, osborne_open, crosshair_pos, next_fire_time,
                   ticks, current_time, running, attempts, event, info,
                   spawned, last_attempt, ret>>

\* Lines 293-303.
DrawOsborneUi ==
    /\ pc = "ui"
    /\ drawn' = Append(drawn, Blit("osborne_ui", 0))
    /\ info' = <<CrossAzimuth(crosshair_pos[1], player_azimuth),
                 CrossElevation(crosshair_pos[2])>>
    /\ pc' = "flip"
    /\ UNCHANGED <<weather, background_mid_mask, background_far_mask, fires,
                   reports, player_azimuth, osborne_open, crosshair_pos,
                   next_fire_time, ticks, current_time, running, attempts,
                   event, spawned, last_attempt, ret>>

\* The end of an iteration without the test of `running`.
FlipIgnoringRunning ==
    /\ pc = "flip"
    /\ pc' = "tick"
    /\ UNCHANGED <<weather, background_mid_mask, background_far_mask, fires,
                   reports, player_azimuth, osborne_open, crosshair_pos,
                   next_fire_time, ticks, current_time, running, attempts,
                   event, drawn, info, spawned, last_attempt, ret>>

\* Lines 373 and 329: the frame is shown and the loop condition is tested.
Flip ==
    /\ pc = "flip"
    /\ pc' = IF running THEN "tick" ELSE "exit"
    /\ UNCHANGED <<weather, background_mid_mask, background_far_mask, fires,
                   reports, player_azimuth, osborne_open, crosshair_pos,
                   next_fire_time, ticks, current_time, running, attempts,
                   event, drawn, info, spawned, last_attempt, ret>>

Next ==
    \/ Tick
    \/ \E e \in Events : HandleEvent(e)
    \/ EndEvents
    \/ Keys
    \/ SpawnNotDue
    \/ SpawnDue
    \/ GenerateFireFound
    \/ GenerateFireMiss
    \/ GenerateFireGiveUp
    \/ ScheduleNext
    \/ DrawFar
    \/ DrawMid
    \/ DrawOsborneUi
    \/ Flip

Spec == Init /\ [][Next]_vars

-----------------------------------------------------------------------------
(* Fire.get_screen_pos applied to one fire of every bearing and either     *)
(* layer, under every view bearing.                                        *)

InitScreenPos ==
    /\ weather = "Clear"
    /\ background_mid_mask = "narrow"
    /\ background_far_mask = "wide"
    /\ ticks = 0
    /\ \E azimuth \in 0..359, distance \in {100, 200}, offset \in OffsetDraws :
         fires = <<Fire(1, azimuth, distance, 10000, offset)>>
    /\ reports = <<>>
    /\ player_azimuth \in 0..359
    /\ osborne_open = FALSE
    /\ crosshair_pos = <<SCREEN_WIDTH \div 2, SCREEN_HEIGHT \div 2>>
    /\ next_fire_time = Ms(3000)
    /\ current_time = 0
    /\ running = TRUE
    /\ pc = "call_get_screen_pos"
    /\ attempts = 0
    /\ event = NoEvent
    /\ drawn = <<>>
    /\ info = None
    /\ spawned = 1
    /\ last_attempt = -1
    /\ ret = None

\* Lines 310 and 166: fire.get_screen_pos(player_azimuth).
CallGetScreenPos ==
    /\ pc = "call_get_screen_pos"
    /\ ret' = get_screen_pos(fires[1], player_azimuth)
    /\ pc' = "return_get_screen_pos"
    /\ UNCHANGED <<weather, background_mid_mask, background_far_mask, fires,
                   reports, player_azimuth, osborne_open, crosshair_pos,
                   next_fire_time, ticks, current_time, running, attempts,
                   event, drawn, info, spawned, last_attempt>>

SpecScreenPos == InitScreenPos /\ [][CallGetScreenPos]_vars

-----------------------------------------------------------------------------
(* The aim bearing of lines 298 and 306, for every aim x of the window and *)
(* every view bearing.                                                     *)

InitAim ==
    /\ weather = "Clear"
    /\ background_mid_mask = "narrow"
    /\ background_far_mask = "wide"
    /\ ticks = 0
    /\ fires = <<>>
    /\ reports = <<>>
    /\ player_azimuth \in 0..359
    /\ osborne_open = TRUE
    /\ \E x \in 0..(SCREEN_WIDTH - 1) : crosshair_pos = <<x, SCREEN_HEIGHT \div 2>>
    /\ next_fire_time = Ms(3000)
    /\ current_time = 0
    /\ running = TRUE
    /\ pc = "call_cross_azimuth"
    /\ attempts = 0
    /\ event = NoEvent
    /\ drawn = <<>>
    /\ info = None
    /\ spawned = 0
    /\ last_attempt = -1
    /\ ret = None

\* Line 306 (and 298): cross_azimuth of the current aim point and view.
CallCrossAzimuth ==
    /\ pc = "call_cross_azimuth"
    /\ ret' = <<CrossAzimuth(crosshair_pos[1], player_azimuth)>>
    /\ pc' = "return_cross_azimuth"
    /\ UNCHANGED <<weather, background_mid_mask, background_far_mask, fires,
                   reports, player_azimuth, osborne_open, crosshair_pos,
                   next_fire_time, ticks, current_time, running, attempts,
                   event, drawn, info, spawned, last_attempt>>

SpecAim == InitAim /\ [][CallCrossAzimuth]_vars

-----------------------------------------------------------------------------
(* Fire.is_expired applied to one fire, under every weather, at clock      *)
(* readings around the end of its lifetime.                                *)

\* The clock readings at construction, in ms.
SpawnTimes == {0, 1, 3000, 4999}

\* The base lifetimes drawn, in ms: an even and an odd one, so that the
\* lifetime under Rainy and Windy is a whole number of ms and is not.
ExpiryLifetimeDraws == {10000, 10001, 50000}

\* The whole ms elapsed since construction at which is_expired is called.
ElapsedAround(fire) ==
    {0} \cup {(fire.lifetime \div 6) + k : k \in -1..2}

InitExpired ==
    /\ weather \in weather_conditions
    /\ background_mid_mask = "narrow"
    /\ background_far_mask = "wide"
    /\ \E t \in SpawnTimes : ticks = Ms(t)
    /\ \E base_lifetime \in ExpiryLifetimeDraws :
         fires = <<Fire(1, 0, 100, base_lifetime, 0)>>
    /\ reports = <<>>
    /\ player_azimuth = 0
    /\ osborne_open = FALSE
    /\ crosshair_pos = <<SCREEN_WIDTH \div 2, SCREEN_HEIGHT \div 2>>
    /\ next_fire_time = ticks + Ms(3000)
    /\ current_time = ticks
    /\ running = TRUE
    /\ pc = "wait_is_expired"
    /\ attempts = 0
    /\ event = NoEvent
    /\ drawn = <<>>
    /\ info = None
    /\ spawned = 1
    /\ last_attempt = -1
    /\ ret = None

\* Time passes between the construction of the fire and the call.
ClockAdvances ==
    /\ pc = "wait_is_expired"
    /\ \E dt \in ElapsedAround(fires[1]) : ticks' = ticks + Ms(dt)
    /\ pc' = "call_is_expired"
    /\ UNCHANGED <<weather, background_mid_mask, background_far_mask, fires,
                   reports, player_azimuth, osborne_open, crosshair_pos,
                   next_fire_time, current_time, running, attempts, event,
                   drawn, info, spawned, last_attempt, ret>>

\* Lines 265 and 283: fire.is_expired().
CallIsExpired ==
    /\ pc = "call_is_expired"
    /\ ret' = <<is_expired(fires[1])>>
    /\ pc' = "return_is_expired"
    /\ UNCHANGED <<weather, background_mid_mask, background_far_mask, fires,
                   reports, player_azimuth, osborne_open, crosshair_pos,
                   next_fire_time, ticks, current_time, running, attempts,
                   event, drawn, info, spawned, last_attempt>>

NextExpired == ClockAdvances \/ CallIsExpired

SpecExpired == InitExpired /\ [][NextExpired]_vars

-----------------------------------------------------------------------------
(* draw_parallax_layer and the mask column of get_terrain_height_at_screen_x *)
(* on a wide far layer, for every screen column and every view bearing.     *)
(* The background image and its mask are one layer of one width.  The       *)
(* screen column is that of the aim point.                                  *)

InitParallax ==
    /\ weather = "Clear"
    /\ background_mid_mask = "narrow"
    /\ background_far_mask \in {"wide", "panorama"}
    /\ ticks = 0
    /\ fires = <<Fire(1, 0, 200, 10000, 0)>>
    /\ reports = <<>>
    /\ player_azimuth \in 0..359
    /\ osborne_open = FALSE
    /\ \E x \in 0..(SCREEN_WIDTH - 1) : crosshair_pos = <<x, SCREEN_HEIGHT \div 2>>
    /\ next_fire_time = Ms(3000)
    /\ current_time = 0
    /\ running = TRUE
    /\ pc = "call_draw_parallax_layer"
    /\ attempts = 0
    /\ event = NoEvent
    /\ drawn = <<>>
    /\ info = None
    /\ spawned = 1
    /\ last_attempt = -1
    /\ ret = None

\* Line 260: draw_parallax_layer(background_far, 1); each blit is recorded
\* with the x position of the image's left edge.
CallDrawParallaxLayer ==
    /\ pc = "call_draw_parallax_layer"
    /\ LET at == draw_parallax_layer(get_width(background_far_mask), player_azimuth)
       IN  drawn' = [k \in 1..Len(at) |-> [op |-> "background_far", at |-> at[k]]]
    /\ pc' = "call_mask_column"
    /\ UNCHANGED <<weather, background_mid_mask, background_far_mask, fires,
                   reports, player_azimuth, osborne_open, crosshair_pos,
                   next_fire_time, ticks, current_time, running, attempts,
                   event, info, spawned, last_attempt, ret>>

\* Lines 116-125 within get_terrain_height_at_screen_x(screen_x, mask, player_azimuth).
CallMaskColumn ==
    /\ pc = "call_mask_column"
    /\ ret' = <<MaskColumn(crosshair_pos[1], get_width(background_far_mask),
                           player_azimuth)>>
    /\ pc' = "return_mask_column"
    /\ UNCHANGED <<weather, background_mid_mask, background_far_mask, fires,
                   reports, player_azimuth, osborne_open, crosshair_pos,
                   next_fire_time, ticks, current_time, running, attempts,
                   event, drawn, info, spawned, last_attempt>>

NextParallax == CallDrawParallaxLayer \/ CallMaskColumn

SpecParallax == InitParallax /\ [][NextParallax]_vars

-----------------------------------------------------------------------------
(* The rotation input of lines 344-348 iteration after iteration, from the *)
(* initial view bearing, under every state of the two arrow keys.  The key *)
(* state read at line 344 is recorded in `event`.                          *)

InitRotation ==
    /\ weather = "Clear"
    /\ background_mid_mask = "narrow"
    /\ background_far_mask = "wide"
    /\ ticks = 0
    /\ fires = <<>>
    /\ reports = <<>>
    /\ player_azimuth = 0
    /\ osborne_open = FALSE
    /\ crosshair_pos = <<SCREEN_WIDTH \div 2, SCREEN_HEIGHT \div 2>>
    /\ next_fire_time = Ms(3000)
    /\ current_time = 0
    /\ running = TRUE
    /\ pc = "keys"
    /\ attempts = 0
    /\ event = NoEvent
    /\ drawn = <<>>
    /\ info = None
    /\ spawned = 0
    /\ last_attempt = -1
    /\ ret = None

\* Lines 344-348 of one iteration.
KeysPressed ==
    /\ pc = "keys"
    /\ \E left \in BOOLEAN, right \in BOOLEAN :
         /\ event' = [type |-> "PRESSED", key |-> <<left, right>>]
         /\ player_azimuth' = Rotated(player_azimuth, left, right)
    /\ UNCHANGED <<weather, background_mid_mask, background_far_mask, fires,
                   reports, osborne_open, crosshair_pos, next_fire_time, ticks,
                   current_time, running, pc, attempts, drawn, info, spawned,
                   last_attempt, ret>>

SpecRotation == InitRotation /\ [][KeysPressed]_vars

-----------------------------------------------------------------------------
(* The signed angular difference of line 150 (and, under abs, line 315)    *)
(* for a fire of every bearing and every view bearing.                     *)

InitAngle ==
    /\ weather = "Clear"
    /\ background_mid_mask = "narrow"
    /\ background_far_mask = "wide"
    /\ ticks = 0
    /\ \E azimuth \in 0..359 : fires = <<Fire(1, azimuth, 100, 10000, 0)>>
    /\ reports = <<>>
    /\ player_azimuth \in 0..359
    /\ osborne_open = FALSE
    /\ crosshair_pos = <<SCREEN_WIDTH \div 2, SCREEN_HEIGHT \div 2>>
    /\ next_fire_time = Ms(3000)
    /\ current_time = 0
    /\ running = TRUE
    /\ pc = "call_relative_angle"
    /\ attempts = 0
    /\ event = NoEvent
    /\ drawn = <<>>
    /\ info = None
    /\ spawned = 1
    /\ last_attempt = -1
    /\ ret = None

\* Line 150: relative_angle of the fire under the view bearing.
CallRelativeAngle ==
    /\ pc = "call_relative_angle"
    /\ ret' = <<RelativeAngle(fires[1].azimuth, player_azimuth)>>
    /\ pc' = "return_relative_angle"
    /\ UNCHANGED <<weather, background_mid_mask, background_far_mask, fires,
                   reports, player_azimuth, osborne_open, crosshair_pos,
                   next_fire_time, ticks, current_time, running, attempts,
                   event, drawn, info, spawned, last_attempt>>

SpecAngle == InitAngle /\ [][CallRelativeAngle]_vars

-----------------------------------------------------------------------------
(* Properties *)

\* The fires of a list, by object identity.
Ids(list) == {list[i].id : i \in 1..Len(list)}

\* The fires whose reported flag is False before a step and True after it.
Flipped ==
    {fires[i].id : i \in {j \in 1..Len(fires) :
        /\ ~fires[j].reported
        /\ \E k \in 1..Len(fires') :
             fires'[k].id = fires[j].id /\ fires'[k].reported}}

\* The fires whose reported flag is True before a step and False after it.
Unflipped ==
    {fires[i].id : i \in {j \in 1..Len(fires) :
        /\ fires[j].reported
        /\ \E k \in 1..Len(fires') :
             fires'[k].id = fires[j].id /\ ~fires'[k].reported}}

\* C1: in every step no reported flag goes back to False, the reports list
\* keeps its entries and grows by exactly one entry per flag that flips to
\* True (so a repeated check_report adds nothing for a fire already
\* reported), and there are never more reports than fires ever spawned.
C1_ReportOncePerFire ==
    [][/\ Unflipped = {}
       /\ Len(reports') >= Len(reports)
       /\ SubSeq(reports', 1, Len(reports)) = reports
       /\ Len(reports') - Len(reports) = Cardinality(Flipped)
       /\ Len(reports') <= spawned']_vars

\* Two fires were reported by two check_report calls with the same aim point
\* and view bearing: the second call reported the other fire.
C1_Witness ==
    /\ Len(fires) = 2
    /\ fires[1].reported /\ fires[2].reported
    /\ Len(reports) = 2
    /\ reports[1] = reports[2]

\* The test the claim states for fire i of the live list: not yet reported,
\* on screen, less than 15 degrees from the aim bearing and less than 50
\* pixels from the aim point.
C2_Qualifies(i) ==
    LET pos == get_screen_pos(fires[i], player_azimuth)
        aim == CrossAzimuth(crosshair_pos[1], player_azimuth)
        gap == ((fires[i].azimuth - aim + 180) % 360) - 180
    IN  /\ ~fires[i].reported
        /\ pos # None
        /\ gap > -15 /\ gap < 15
        /\ DistanceSquared(pos, crosshair_pos) < 2500

\* C2: a check_report call (a space key press handled while the instrument
\* is open) marks exactly the first fire of the live list, in insertion
\* order, that qualifies, and appends one report; when none qualifies it
\* changes no flag and no report.
C2_FirstMatchWins ==
    [][(pc = "events" /\ osborne_open /\ event'.key = "SPACE") =>
        IF \E i \in 1..Len(fires) : C2_Qualifies(i)
        THEN LET first == CHOOSE i \in 1..Len(fires) :
                              /\ C2_Qualifies(i)
                              /\ \A j \in 1..(i - 1) : ~C2_Qualifies(j)
             IN  /\ fires' = [fires EXCEPT ![first].reported = TRUE]
                 /\ Len(reports') = Len(reports) + 1
        ELSE fires' = fires /\ reports' = reports]_vars

\* check_report has marked the first of two qualifying fires although the
\* second, still unreported, is closer to the aim point.
C2_Witness ==
    /\ pc = "events" /\ event.key = "SPACE" /\ osborne_open
    /\ Len(fires) = 2 /\ Len(reports) = 1
    /\ fires[1].reported
    /\ C2_Qualifies(2)
    /\ DistanceSquared(get_screen_pos(fires[2], player_azimuth), crosshair_pos)
         < DistanceSquared(get_screen_pos(fires[1], player_azimuth), crosshair_pos)
    /\ DistanceSquared(get_screen_pos(fires[1], player_azimuth), crosshair_pos) < 2500

\* columnForBearing: the mask column of a bearing under a view bearing,
\* floor(bearing/360 * W) mod W on a mask no wider than the screen and
\* (floor(bearing/360 * W) + floor(viewBearing/360 * W) mod W) mod W on a
\* wider one.
C3_ColumnForBearing(bearing, viewBearing, mask) ==
    LET W == get_width(mask)
    IN  IF W <= SCREEN_WIDTH
        THEN ((bearing * W) \div 360) % W
        ELSE (((bearing * W) \div 360) + (((viewBearing * W) \div 360) % W)) % W

\* hasTerrain: the column holds a pixel of brightness < 200.
C3_HasTerrain(bearing, viewBearing, mask) ==
    \E y \in 0..(get_height(mask) - 1) :
        LET pixel == get_at(mask, C3_ColumnForBearing(bearing, viewBearing, mask), y)
        IN  pixel[1] + pixel[2] + pixel[3] < 600

\* C3: every fire the spawner appends has terrain, at spawn time, in the
\* column of its bearing under the current view bearing, on the mask of its
\* own layer.  (A fire whose spawn_time is the current clock value was
\* appended in this iteration of the loop, after the view was turned.)
C3_SpawnOnTerrain ==
    \A i \in 1..Len(fires) :
        fires[i].spawn_time = ticks =>
            C3_HasTerrain(fires[i].azimuth, player_azimuth,
                          IF fires[i].layer = "far" THEN background_far_mask
                          ELSE background_mid_mask)

\* now - spawn_time > lifetime, at the clock value of this iteration.
C4_Expired(fire) == ticks - fire.spawn_time > fire.lifetime

\* C4: draw_far removes exactly the far fires that are expired and draw_mid
\* exactly the mid fires that are expired, the others keeping their order;
\* no other step removes a fire, reported or not; and no fire removed by a
\* sweep is among the fires drawn in that iteration of the loop.
C4_SweepRemovesExpired ==
    [][/\ pc = "draw_far" =>
            fires' = SelectSeq(fires, LAMBDA f : ~(f.layer = "far" /\ C4_Expired(f)))
       /\ pc = "draw_mid" =>
            fires' = SelectSeq(fires, LAMBDA f : ~(f.layer = "mid" /\ C4_Expired(f)))
       /\ pc \notin {"draw_far", "draw_mid"} => Ids(fires) \subseteq Ids(fires')
       /\ pc \in {"draw_far", "draw_mid"} =>
            \A k \in 1..Len(drawn') :
                drawn'[k].op = "fire" => drawn'[k].id \in Ids(fires')]_vars

\* A sweep has removed the first fire, expired and reported, and has left
\* the second one, which was drawn.
C4_Witness ==
    /\ pc = "flip"
    /\ spawned = 2
    /\ Len(fires) = 1 /\ fires[1].id = 2
    /\ Len(reports) = 1
    /\ \E k \in 1..Len(drawn) : drawn[k] = Blit("fire", 2)

\* b lies in the closed window [v - 75, v + 75] of bearings, modulo 360.
C5_InWindow(b, v) == \E k \in -75..75 : (v + k) % 360 = b

\* C5: get_screen_pos returns None exactly when the fire's bearing lies
\* strictly outside [v - 75, v + 75] modulo 360 and a pair (x, y) otherwise.
C5_NoneIffOutsideWindow ==
    pc = "return_get_screen_pos" =>
        IF C5_InWindow(fires[1].azimuth, player_azimuth)
        THEN ret # None /\ Len(ret) = 2
        ELSE ret = None

\* get_screen_pos has returned a position for a fire exactly 75 degrees to
\* the right of the view bearing, across the 0/360 wrap.
C5_Witness ==
    /\ pc = "return_get_screen_pos"
    /\ player_azimuth = 300
    /\ fires[1].azimuth = 15
    /\ ret # None

\* floor(n / d) for d > 0.
FloorDiv(n, d) == n \div d

\* C6: the record a successful check_report appends is the pair of the aim
\* bearing and the elevation floor((300 - aimY) / (600 / 90)) of the aim
\* point at the time of the call.
C6_ReportIsBearingAndElevation ==
    [][Len(reports') > Len(reports) =>
        reports'[Len(reports')] =
            <<CrossAzimuth(crosshair_pos[1], player_azimuth),
              FloorDiv((300 - crosshair_pos[2]) * 90, 600)>>]_vars

\* C7: the aim bearing is floor(aimX / 800 * 150 + (viewBearing - 75)) mod 360
\* for every aim x and view bearing; the argument of floor is
\* (3 * aimX + 16 * (viewBearing - 75)) / 16.
C7_AimBearingIsFloor ==
    pc = "return_cross_azimuth" =>
        ret = <<FloorDiv(3 * crosshair_pos[1] + 16 * (player_azimuth - 75), 16) % 360>>

\* Twice the spawn divisor of the weather: Clear 1, Rainy 0.5, Windy 1.5, Hot 2.
C8_TwiceDivisor ==
    CASE weather = "Clear" -> 2
      [] weather = "Rainy" -> 1
      [] weather = "Windy" -> 3
      [] weather = "Hot" -> 4

\* C8: once a spawn attempt of the main loop is over (generate_fire has
\* returned and the next spawn time is set), the next spawn time lies in
\* [now + 4000/d, now + 8000/d] for the time now of the attempt; and an
\* attempt starts at least 4000/d ms after the one before it, so at most
\* once per iteration of the loop.
C8_NextSpawnWindow ==
    [][/\ (last_attempt' # -1 /\ pc' \notin {"generate_fire", "schedule"}) =>
            /\ C8_TwiceDivisor * (next_fire_time' - last_attempt') >= 2 * Ms(4000)
            /\ C8_TwiceDivisor * (next_fire_time' - last_attempt') <= 2 * Ms(8000)
       /\ (pc = "spawn" /\ pc' = "generate_fire" /\ last_attempt # -1) =>
            /\ C8_TwiceDivisor * (current_time - last_attempt) >= 2 * Ms(4000)
            /\ current_time > last_attempt]_vars

\* A second attempt has been made under Windy weather and the next spawn time
\* (not a whole number of milliseconds) is set.
C8_Witness ==
    /\ weather = "Windy"
    /\ pc = "draw_far"
    /\ spawned = 2
    /\ last_attempt = current_time
    /\ next_fire_time > current_time
    /\ next_fire_time % 6 # 0

\* C9: generate_fire makes at most 20 draws: its counter never exceeds 20,
\* an iteration either misses (counter + 1, list unchanged) or appends one
\* fire and returns, and with the counter at 20 it returns with the list
\* unchanged and the loop still running.
C9_BoundedAttempts ==
    [][pc = "generate_fire" =>
        /\ attempts <= max_attempts
        /\ \/ /\ attempts < max_attempts
              /\ pc' = "generate_fire"
              /\ attempts' = attempts + 1
              /\ fires' = fires
           \/ /\ attempts < max_attempts
              /\ pc' = "schedule"
              /\ Len(fires') = Len(fires) + 1
              /\ SubSeq(fires', 1, Len(fires)) = fires
           \/ /\ attempts = max_attempts
              /\ pc' = "schedule"
              /\ fires' = fires
        /\ running' = running]_vars

\* All 20 draws of a call found no terrain, with a fire in the live list.
C9_Witness ==
    /\ pc = "generate_fire"
    /\ attempts = max_attempts
    /\ Len(fires) = 1
    /\ running

\* The reported flag of every fire that is in the list before and after the
\* step is the same.
C10_FlagsKept ==
    \A i \in 1..Len(fires) : \A j \in 1..Len(fires') :
        fires[i].id = fires'[j].id => fires[i].reported = fires'[j].reported

\* C10: while the instrument is closed, handling an event changes neither
\* the aim point nor a fire's reported flag nor the reports list; any step
\* that changes one of them handles an event with the instrument-open flag
\* true at that moment, the toggle having been applied in event order.
C10_ClosedInstrumentInert ==
    [][/\ (pc = "events" /\ ~osborne_open) =>
            /\ crosshair_pos' = crosshair_pos
            /\ reports' = reports
            /\ fires' = fires
       /\ (crosshair_pos' # crosshair_pos \/ reports' # reports \/ ~C10_FlagsKept) =>
            /\ pc = "events"
            /\ osborne_open
            /\ event'.type \in {"KEYDOWN", "MOUSEMOTION"}]_vars

\* A space key press was handled with the instrument closed while a fire
\* qualified for a report: nothing was reported.
C10_Witness ==
    /\ pc = "events"
    /\ ~osborne_open
    /\ event.key = "SPACE"
    /\ reports = <<>>
    /\ \E i \in 1..Len(fires) : C2_Qualifies(i)

\* C11: is_expired is true exactly when now - T0 > L: false at every now up
\* to T0 + L, T0 + L itself included, and true from T0 + L + 1 ms on (times
\* in sixths of a millisecond, so 1 ms is 6).
C11_ExpiredStrictlyAfterLifetime ==
    pc = "return_is_expired" =>
        LET T0 == fires[1].spawn_time
            L == fires[1].lifetime
        IN  /\ ticks <= T0 + L => ret = <<FALSE>>
            /\ ticks >= T0 + L + Ms(1) => ret = <<TRUE>>
            /\ ret = <<TRUE>> <=> ticks - T0 > L

\* is_expired has returned False at now = T0 + L exactly, for a fire whose
\* construction was not at clock 0.
C11_Witness ==
    /\ pc = "return_is_expired"
    /\ fires[1].spawn_time > 0
    /\ ticks = fires[1].spawn_time + fires[1].lifetime
    /\ ret = <<FALSE>>

\* The layer of the live fire with identity id.
C12_LayerOf(id) ==
    LET i == CHOOSE j \in 1..Len(fires) : fires[j].id = id
    IN  fires[i].layer

\* C12: the frame shown at the end of a tick was drawn in the order far
\* background, far fires, haze, mid background, mid fires, and last the
\* instrument overlay exactly when the instrument is open; every fire drawn
\* before the haze is a far fire and every fire drawn after it a mid fire.
C12_DrawOrder ==
    pc = "flip" =>
        \E h \in 2..Len(drawn) :
            /\ drawn[1] = Blit("background_far", 0)
            /\ drawn[h] = Blit("haze", 0)
            /\ h + 1 <= Len(drawn)
            /\ drawn[h + 1] = Blit("background_mid", 0)
            /\ \A k \in 2..(h - 1) :
                 drawn[k].op = "fire" /\ C12_LayerOf(drawn[k].id) = "far"
            /\ \A k \in (h + 2)..Len(drawn) :
                 \/ drawn[k].op = "fire" /\ C12_LayerOf(drawn[k].id) = "mid"
                 \/ k = Len(drawn) /\ drawn[k] = Blit("osborne_ui", 0)
            /\ osborne_open <=> drawn[Len(drawn)] = Blit("osborne_ui", 0)

\* A frame with a far fire, a mid fire and the instrument overlay.
C12_Witness ==
    /\ pc = "flip"
    /\ osborne_open
    /\ Len(drawn) = 6
    /\ drawn[2].op = "fire"
    /\ drawn[5].op = "fire"
    /\ drawn[6] = Blit("osborne_ui", 0)

\* The image column showing at screen column x after the recorded blits of an
\* image W wide: that of the last blit covering x (a later blit overdraws an
\* earlier one); -1 when no blit covers x.
C13_DisplayedColumn(x, W) ==
    LET covering == {k \in 1..Len(drawn) : drawn[k].at <= x /\ x < drawn[k].at + W}
    IN  IF covering = {} THEN -1
        ELSE LET k == CHOOSE j \in covering : \A i \in covering : i <= j
             IN  x - drawn[k].at

\* C13: on a wide layer the mask column sampled for screen column x under
\* view bearing v is the image column that the two blits of
\* draw_parallax_layer show at x, and it is a column of the image.
C13_RenderQueryRoundTrip ==
    pc = "return_mask_column" =>
        LET W == get_width(background_far_mask)
        IN  /\ W > SCREEN_WIDTH
            /\ Len(drawn) = 2
            /\ ret = <<C13_DisplayedColumn(crosshair_pos[1], W)>>
            /\ ret[1] \in 0..(W - 1)

\* The column was sampled at the right edge of the screen where the second
\* blit shows (offset + x wraps past the image width), on the 1600 pixel
\* image under view bearing 207, whose offset is 919.
C13_Witness ==
    /\ pc = "return_mask_column"
    /\ background_far_mask = "panorama"
    /\ player_azimuth = 207
    /\ crosshair_pos[1] = 799
    /\ drawn[2].at = 681
    /\ ret = <<118>>

\* Twice the lifetime multiplier of the weather.
C14_TwiceMultiplier ==
    CASE weather = "Hot" -> 4
      [] weather = "Rainy" -> 1
      [] weather = "Windy" -> 3
      [] weather = "Clear" -> 2

\* C14: no step changes the weather, and the lifetime of a fire, when it is
\* appended and at every later step, is a drawn base lifetime times the
\* weather's multiplier: 2.0 under Hot, 0.5 under Rainy, 1.5 under Windy,
\* 1.0 under Clear.
C14_WeatherScalesLifetime ==
    [][/\ weather' = weather
       /\ \A j \in 1..Len(fires') :
            \E base_lifetime \in LifetimeDraws :
                2 * fires'[j].lifetime = C14_TwiceMultiplier * Ms(base_lifetime)]_vars

\* Under Windy weather a fire drawn with base lifetime 10000 ms lives on,
\* after its construction, with lifetime 15000 ms.
C14_Witness ==
    /\ weather = "Windy"
    /\ Len(fires) >= 1
    /\ fires[1].lifetime = Ms(15000)
    /\ ticks > fires[1].spawn_time

\* C15: the loop is left only at the loop test at the end of an iteration in
\* which a quit event was handled; `running` is cleared by the handling of a
\* quit event and by nothing else, is never set again, and once it is clear
\* no further iteration starts: the clock is not read again and the loop
\* test that follows exits.
C15_OnlyQuitEndsLoop ==
    [][/\ (running /\ ~running') => (pc = "events" /\ event'.type = "QUIT")
       /\ ~running => ~running'
       /\ (pc # "exit" /\ pc' = "exit") => (pc = "flip" /\ ~running)
       /\ ~running => (pc' # "tick" /\ ticks' = ticks)
       /\ (pc = "flip" /\ ~running) => pc' = "exit"
       /\ pc = "exit" => pc' = "exit"]_vars

\* The loop was left after an iteration that handled a quit event, drew its
\* frame with a live fire, and followed a spawn attempt of this run.
C15_Witness ==
    /\ pc = "exit"
    /\ ~running
    /\ Len(fires) = 1
    /\ Len(drawn) >= 3
    /\ last_attempt # -1

\* The fields of a fire other than `reported`.
C16_FixedFields(fire) ==
    <<fire.azimuth, fire.distance, fire.layer, fire.terrain_offset,
      fire.spawn_time, fire.lifetime>>

\* C16: every fire in the list has an integer terrain_offset in [0, 80] and
\* the layer of its distance, and no step (event handling with check_report,
\* rotation, spawn, the draws with get_screen_pos, the sweeps) changes the
\* bearing, layer, terrain_offset, spawn_time or lifetime of a fire that
\* stays in the list.
C16_FireFieldsFixed ==
    [][/\ \A i \in 1..Len(fires) : \A j \in 1..Len(fires') :
            fires[i].id = fires'[j].id =>
                C16_FixedFields(fires[i]) = C16_FixedFields(fires'[j])
       /\ \A j \in 1..Len(fires') :
            /\ fires'[j].terrain_offset \in 0..80
            /\ fires'[j].layer = (IF fires'[j].distance > 150 THEN "far" ELSE "mid")]_vars

\* A fire with terrain_offset 80 has been reported and is drawn, in a later
\* iteration than that of its construction, under view bearing 359.
C16_Witness ==
    /\ pc = "flip"
    /\ player_azimuth = 359
    /\ Len(fires) >= 1
    /\ fires[1].reported
    /\ fires[1].terrain_offset = 80
    /\ ticks > fires[1].spawn_time
    /\ \E k \in 1..Len(drawn) : drawn[k] = Blit("fire", fires[1].id)

\* C17: the view bearing is an integer in [0, 360) and one iteration's
\* rotation input moves it by at most one degree with wrap: the left key
\* alone takes 0 to 359 and v to v - 1 otherwise, the right key alone takes
\* 359 to 0 and v to v + 1 otherwise, both keys or neither leave it unchanged.
C17_BearingStepsByOneWithWrap ==
    [][LET v == player_azimuth
           left == event'.key[1]
           right == event'.key[2]
       IN  /\ v \in 0..359
           /\ player_azimuth' \in 0..359
           /\ (left /\ ~right) => player_azimuth' = (IF v = 0 THEN 359 ELSE v - 1)
           /\ (right /\ ~left) => player_azimuth' = (IF v = 359 THEN 0 ELSE v + 1)
           /\ (left = right) => player_azimuth' = v]_vars

\* With both keys held the view bearing was left at 359, which it had
\* reached by wrapping from 0.
C17_Witness ==
    /\ pc = "keys"
    /\ event.type = "PRESSED"
    /\ event.key = <<TRUE, TRUE>>
    /\ player_azimuth = 359

\* C18, as stated: the signed angular difference of two bearings of
\* [0, 360) lies in (-180, 180], in particular for opposite bearings.
C18_DifferenceInUpperClosedRange ==
    pc = "return_relative_angle" => (ret[1] > -180 /\ ret[1] <= 180)

\* C18, amended: the signed angular difference lies in [-180, 180), differs
\* from a - b by a multiple of 360, and is -180 for opposite bearings.
C18_DifferenceInLowerClosedRange ==
    pc = "return_relative_angle" =>
        LET a == fires[1].azimuth
            b == player_azimuth
        IN  /\ ret[1] >= -180 /\ ret[1] < 180
            /\ (ret[1] - (a - b)) % 360 = 0
            /\ (a - b) % 360 = 180 => ret[1] = -180

\* The difference was computed for a fire opposite the view bearing, across
\* the 0/360 wrap.
C18_Witness ==
    /\ pc = "return_relative_angle"
    /\ fires[1].azimuth = 10
    /\ player_azimuth = 190
    /\ ret = <<-180>>

\* C19: a step that sets the reported flag of a fire (check_report, called
\* from the event handling, before the sweeps of the iteration) does so only
\* for a fire that is not expired at that time, and a step that appends a
\* report sets the flag of such a fire.
C19_ExpiredFireNotReported ==
    [][/\ \A i \in 1..Len(fires) : \A j \in 1..Len(fires') :
            (fires[i].id = fires'[j].id /\ ~fires[i].reported /\ fires'[j].reported)
                => ~C4_Expired(fires[i])
       /\ Len(reports') > Len(reports) =>
            \E i \in 1..Len(fires) :
                /\ ~fires[i].reported
                /\ fires'[i].reported
                /\ ~C4_Expired(fires[i])]_vars

\* C20: whenever get_screen_pos returns a position its x is a screen column,
\* 0 <= x < 800, also for a fire exactly 75 degrees right of the view bearing.
C20_ScreenXOnScreen ==
    (pc = "return_get_screen_pos" /\ ret # None) =>
        (ret[1] >= 0 /\ ret[1] < SCREEN_WIDTH)

====
